---- MODULE Spec2Model ----
(***************************************************************************)
(* bdpi_tester: the orchestration core of src/src/main.rs.                 *)
(*                                                                         *)
(* The Group Scheduler (run_all_groups, process_group) cuts the            *)
(* configuration list into chunks of group_size, spawns one Config Runner  *)
(* task per configuration of a chunk (run_config_test), joins them, writes *)
(* the report and moves on.  A Config Runner starts the external proxy,    *)
(* sleeps, probes every domain (test_all_domains / test_domain), stops the *)
(* proxy and pushes its TestResult under the results mutex.                *)
(*                                                                         *)
(* Spec      : the whole run, probing of one runner taken as one step.     *)
(* SpecProbe : one runner's probe fan-out, one step per request.           *)
(***************************************************************************)
EXTENDS Integers, Sequences, FiniteSets, TLC

\* ------------------------------------------------------------- bounds
MaxConfigs == 3
MaxGroupSize == 2
MaxDomains == 2
BasePort == 1080

\* start_port is a u16: sums are taken modulo 2^16 (release) or panic (debug)
U16Modulus == 65536
U16Max == U16Modulus - 1

AllConfigs == <<"cfgA -x", "cfgA -x", "cfg.B", "cfgA -y", "cfgB">>
AllDomains == <<"A", "B", "C", "D">>

Runners == 1..MaxConfigs

Outcomes == {"2xx", "non2xx", "transport_err"}

VARIABLES
    configs,          \* read_lines("configs.txt")
    domains,          \* read_lines("domains.txt")
    group_size,       \* settings.group_size
    start_port,       \* settings.start_port
    build,            \* "debug": u16 overflow panics; "release": it wraps
    pc,               \* where the main task is
    abort,            \* why main returned Err or panicked ("" while it has not)
    group_idx,        \* run_all_groups: group_idx of the chunk in hand
    spawn_i,          \* process_group: i of the spawn loop
    await_i,          \* process_group: i of the join loop
    successful_total, \* process_group: successful_total
    tests_total,      \* process_group: tests_total
    group_stats,      \* run_all_groups: group_stats
    header_end,       \* print_group_header: the port range end it printed
    rstate,           \* per configuration: where its runner task is
    port,             \* per configuration: socks5_port given to its task (0: none)
    proc,             \* per configuration: its Child process
    succ,             \* per configuration: successful domains of test_all_domains
    fail,             \* per configuration: failed domains of test_all_domains
    results,          \* Arc<Mutex<Vec<TestResult>>>: the vector
    lock,             \* the mutex: 0 free, r held by runner r, -1 by the main task
    file,             \* the report file
    pushed_by,        \* for each entry of results, the configuration whose runner pushed it
    printed,          \* the rates print_config_result and print_group_summary computed, in order
    written,          \* the reports write_results_file wrote in full, in order
    delays,           \* how many times wait_between_groups has slept
    log_path,         \* per configuration: the log file start_ciadpi_process opened
    probe_runner,     \* SpecProbe: the configuration whose test_all_domains is followed
    probe_world,      \* SpecProbe: what each domain answers over HTTPS and HTTP
    probe_client,     \* SpecProbe: what create_http_client returned to each test_domain
    probe_pc,         \* SpecProbe: where each test_domain future is
    probe_log,        \* SpecProbe: the requests each test_domain sent, in order
    probe_ok,         \* SpecProbe: the bool each test_domain returned
    probe_result      \* SpecProbe: the TestResult built from the joined probes

schedVars == <<pc, abort, group_idx, spawn_i, await_i, successful_total,
               tests_total, group_stats, header_end>>
inputVars == <<configs, domains, group_size, start_port, build>>
runnerVars == <<rstate, port, proc, succ, fail>>
sharedVars == <<results, lock, file, pushed_by>>
probeVars == <<probe_runner, probe_world, probe_client, probe_pc, probe_log, probe_ok, probe_result>>
logVars == <<printed, written, delays, log_path>>
mainVars == <<inputVars, schedVars, runnerVars, sharedVars, logVars>>
vars == <<mainVars, probeVars>>

\* ------------------------------------------------------------ helpers
Min(a, b) == IF a < b THEN a ELSE b

\* Vec::len of the elements of s that satisfy Test, in order
RECURSIVE SelectIdx(_, _)
SelectIdx(n, keep) ==
    IF n = 0 THEN <<>>
    ELSE IF keep[n] THEN Append(SelectIdx(n - 1, keep), n)
         ELSE SelectIdx(n - 1, keep)

\* successful as f32 / total as f32 * 100.0, the f32 kept as the fraction num/den.
\* den = 0 is a division by zero: IEEE 754 gives 0.0 / 0.0 = NaN, without a trap.
\* (Within the bounds the quotients of equal fractions are the same f32.)
F32Percent(successful, total) == [num |-> successful * 100, den |-> total]

\* the 0.0 of the guarded computations
F32Zero == [num |-> 0, den |-> 1]

\* f32::is_nan, and a quotient whose divisor was zero
IsNaN(x) == x.den = 0 /\ x.num = 0
DividedByZero(x) == x.den = 0

\* f32 as u32: truncates, NaN gives 0 (successful <= total: no infinity arises)
as_u32(x) == IF x.den = 0 THEN 0 ELSE x.num \div x.den

\* a TestResult::new without the total > 0 test
TestResult_new_Unguarded(config, socks5_port, successful, failed) ==
    [config |-> config,
     socks5_port |-> socks5_port,
     successful_domains |-> successful,
     failed_domains |-> failed,
     success_rate |-> F32Percent(Len(successful), Len(successful) + Len(failed))]

\* TestResult::new: success_rate = successful / total * 100, 0.0 when total = 0.
\* The f32 is kept as the fraction num/den.
TestResult_new(config, socks5_port, successful, failed) ==
    LET total == Len(successful) + Len(failed) IN
    [config |-> config,
     socks5_port |-> socks5_port,
     successful_domains |-> successful,
     failed_domains |-> failed,
     success_rate |-> IF total > 0
                      THEN [num |-> Len(successful) * 100, den |-> total]
                      ELSE [num |-> 0, den |-> 1]]

\* GroupStats::success_rate: successful / total * 100 if total > 0, else 0.0
GroupStats_success_rate(stats) ==
    IF stats.total > 0 THEN F32Percent(stats.successful, stats.total) ELSE F32Zero

\* print_config_result: rate = (successful as f32 / total as f32 * 100.0) as u32,
\* no test of total; what it computed and the percentage it printed
print_config_result(successful, total) ==
    [kind |-> "config", successful |-> successful, total |-> total,
     value |-> F32Percent(successful, total),
     rate |-> as_u32(F32Percent(successful, total))]

\* Iterator::sum of f over the indices S
RECURSIVE SumOver(_, _)
SumOver(f, S) ==
    IF S = {} THEN 0
    ELSE LET x == CHOOSE y \in S : TRUE IN f[x] + SumOver(f, S \ {x})

\* totals that are those of the last group alone
calculate_total_stats_LastGroup(gs) ==
    IF gs = <<>> THEN [successful |-> 0, total |-> 0] ELSE gs[Len(gs)]

\* calculate_total_stats: the sums of successful and of total over group_stats
calculate_total_stats(gs) ==
    [successful |-> SumOver([g \in 1..Len(gs) |-> gs[g].successful], 1..Len(gs)),
     total |-> SumOver([g \in 1..Len(gs) |-> gs[g].total], 1..Len(gs))]

\* print_group_summary: rate = stats.success_rate() as u32
print_group_summary(stats) ==
    [kind |-> "group", successful |-> stats.successful, total |-> stats.total,
     value |-> GroupStats_success_rate(stats),
     rate |-> as_u32(GroupStats_success_rate(stats))]

\* run_all_groups: total_groups = (len + group_size - 1) / group_size
total_groups == (Len(configs) + group_size - 1) \div group_size

\* configs.chunks(group_size): length of chunk g (0-based), 0 past the end
ChunkLen(g) ==
    IF g * group_size >= Len(configs) THEN 0
    ELSE Min(group_size, Len(configs) - g * group_size)

\* the configuration (1-based in configs) at position i of chunk g
ChunkAt(g, i) == g * group_size + i + 1

\* the group (1-based) the chunking puts configuration r in
GroupOf(r) == ((r - 1) \div group_size) + 1

Finished == {"some", "none", "panicked"}
Active == {"spawned", "running", "probing", "probed", "stopped", "locked"}


\* ------------------------------------------------------- Domain Probe
\* try_https / try_http: send().await.ok().map(|resp| resp.status().is_success())
try_request(outcome) ==
    IF outcome = "transport_err" THEN "None"
    ELSE IF outcome = "2xx" THEN "Some(true)" ELSE "Some(false)"

\* an unwrap_or(true): a request that got no response counts as a success
unwrap_or_true(opt) == opt # "Some(false)"

\* Option<bool>::unwrap_or(false)
unwrap_or_false(opt) == opt = "Some(true)"

\* a fallback that is taken only when HTTPS fails at the transport level
FallbackNeeded_TransportOnly(https_opt) == https_opt = "None"

\* test_domain: if try_https(..).await.unwrap_or(false) { true } else { try_http(..) }
FallbackNeeded(https_opt) == ~unwrap_or_false(https_opt)

\* test_domain: the bool it returns, given whether create_http_client succeeded
\* and what the domain answers over HTTPS and over HTTP
test_domain(client_ok, https, http) ==
    IF ~client_ok THEN FALSE
    ELSE IF ~FallbackNeeded(try_request(https)) THEN unwrap_or_false(try_request(https))
    ELSE unwrap_or_false(try_request(http))

\* what the network can answer for one domain, and whether the client builds
ProbeInputs == [client_ok : BOOLEAN, https : Outcomes, http : Outcomes]

\* test_all_domains: join_all keeps the order of domains; partition splits it
Partition(ok) ==
    LET n == Len(domains) IN
    [successful |-> [k \in 1..Len(SelectIdx(n, ok)) |-> domains[SelectIdx(n, ok)[k]]],
     failed |-> [k \in 1..Len(SelectIdx(n, [d \in 1..n |-> ~ok[d]])) |->
                    domains[SelectIdx(n, [d \in 1..n |-> ~ok[d]])[k]]]]

\* ------------------------------------------------------------- Init
NoFile == [state |-> "absent", results |-> <<>>]

\* no log file opened (yet)
NoPath == [dir |-> 0, name |-> [base |-> "", p |-> 0, t |-> 0]]

ProbeIdle ==
    /\ probe_runner = 0
    /\ probe_world = <<>>
    /\ probe_client = <<>>
    /\ probe_pc = <<>>
    /\ probe_log = <<>>
    /\ probe_ok = <<>>
    /\ probe_result = <<>>

StartPorts == {BasePort, U16Max}

Init ==
    /\ \E n \in 1..MaxConfigs : configs = SubSeq(AllConfigs, 1, n)
    /\ \E m \in 0..MaxDomains : domains = SubSeq(AllDomains, 1, m)
    /\ group_size \in 1..MaxGroupSize
    /\ start_port \in StartPorts
    /\ build \in {"debug", "release"}
    /\ pc = "header"
    /\ abort = ""
    /\ group_idx = 0
    /\ spawn_i = 0
    /\ await_i = 0
    /\ successful_total = 0
    /\ tests_total = 0
    /\ group_stats = <<>>
    /\ header_end = 0
    /\ rstate = [r \in Runners |-> "idle"]
    /\ port = [r \in Runners |-> 0]
    /\ proc = [r \in Runners |-> "none"]
    /\ succ = [r \in Runners |-> <<>>]
    /\ fail = [r \in Runners |-> <<>>]
    /\ results = <<>>
    /\ lock = 0
    /\ file = NoFile
    /\ pushed_by = <<>>
    /\ printed = <<>>
    /\ written = <<>>
    /\ delays = 0
    /\ log_path = [r \in Runners |-> NoPath]
    /\ ProbeIdle

\* ---------------------------------------------------- Group Scheduler
\* main returns Err (the ? operator) or panics: the run is over
Abort(why) ==
    /\ pc' = "aborted"
    /\ abort' = why

\* run_all_groups, top of the loop body: print_group_header, create_dir_all(&group_dir)?
BeginGroup ==
    /\ pc = "header"
    /\ ChunkLen(group_idx) > 0
    /\ LET hdr == start_port + ChunkLen(group_idx) IN
       IF build = "debug" /\ hdr > U16Max
       THEN /\ Abort("overflow")
            /\ UNCHANGED <<spawn_i, header_end>>
       ELSE \E mkdir_ok \in BOOLEAN :
              /\ header_end' = ((hdr % U16Modulus) - 1) % U16Modulus
              /\ IF mkdir_ok
                 THEN /\ pc' = "spawn"
                      /\ spawn_i' = 0
                      /\ UNCHANGED abort
                 ELSE /\ Abort("mkdir")
                      /\ UNCHANGED spawn_i
    /\ UNCHANGED <<group_idx, await_i, successful_total, tests_total, group_stats>>
    /\ UNCHANGED <<inputVars, runnerVars, sharedVars, probeVars>>
    /\ UNCHANGED logVars

\* process_group: socks5_port = settings.start_port + i as u16 (release: wraps)
AssignPort(g, i) == (start_port + (i % U16Modulus)) % U16Modulus

\* process_group, one turn of the first loop: spawn_config_test(config, socks5_port, ...)
\* (a debug build that would overflow here has already panicked in print_group_header)
SpawnConfigTest ==
    /\ pc = "spawn"
    /\ spawn_i < ChunkLen(group_idx)
    /\ LET r == ChunkAt(group_idx, spawn_i) IN
       IF build = "debug" /\ start_port + spawn_i > U16Max
       THEN /\ Abort("overflow")
            /\ UNCHANGED <<spawn_i, await_i, successful_total, tests_total, runnerVars>>
       ELSE /\ port' = [port EXCEPT ![r] = AssignPort(group_idx, spawn_i)]
            /\ rstate' = [rstate EXCEPT ![r] = "spawned"]
            /\ spawn_i' = spawn_i + 1
            /\ IF spawn_i + 1 = ChunkLen(group_idx)
               THEN /\ pc' = "await"
                    /\ await_i' = 0
                    /\ successful_total' = 0
                    /\ tests_total' = 0
               ELSE UNCHANGED <<pc, await_i, successful_total, tests_total>>
            /\ UNCHANGED <<abort, proc, succ, fail>>
    /\ UNCHANGED <<group_idx, group_stats, header_end>>
    /\ UNCHANGED <<inputVars, sharedVars, probeVars>>
    /\ UNCHANGED logVars

\* a runner that returns the number of failed domains as its total
Returned_FailedAsTotal(r) == [successful |-> Len(succ[r]), total |-> Len(fail[r])]

\* run_config_test: Ok((config_name, successful.len(), total_tests)),
\* total_tests = successful.len() + failed.len()
Returned(r) == [successful |-> Len(succ[r]), total |-> Len(succ[r]) + Len(fail[r])]

\* a join that does not wait for the task to end
TaskJoinable_NoWait(r) == rstate[r] # "idle"

\* task.await returns once the task has ended
TaskJoinable(r) == rstate[r] \in Finished

\* a join loop that propagates a failed task (task.await?)
JoinOutcome_Propagate(r) ==
    IF rstate[r] = "some" THEN "count"
    ELSE IF rstate[r] = "none" THEN "skip" ELSE "abort"

\* process_group, the match on task.await: Ok(Some(..)) counts, Ok(None) and Err(e) print
JoinOutcome(r) == IF rstate[r] = "some" THEN "count" ELSE "skip"

\* process_group, one turn of the second loop; after the last one Ok(GroupStats),
\* print_group_summary and group_stats.push(stats) of run_all_groups
\* (task.await carries no ?: JoinOutcome of the code never says "abort")
AwaitTask ==
    /\ pc = "await"
    /\ await_i < ChunkLen(group_idx)
    /\ LET r == ChunkAt(group_idx, await_i)
           counted == JoinOutcome(r) = "count"
           s == successful_total + (IF counted THEN Returned(r).successful ELSE 0)
           t == tests_total + (IF counted THEN Returned(r).total ELSE 0)
           line == IF counted
                   THEN <<print_config_result(Returned(r).successful, Returned(r).total)>>
                   ELSE <<>>
       IN  /\ TaskJoinable(r)
           /\ IF JoinOutcome(r) = "abort"
              THEN /\ Abort("task")
                   /\ UNCHANGED <<await_i, successful_total, tests_total, group_stats, printed>>
              ELSE /\ await_i' = await_i + 1
                   /\ successful_total' = s
                   /\ tests_total' = t
                   /\ IF await_i + 1 = ChunkLen(group_idx)
                      THEN /\ group_stats' = Append(group_stats, [successful |-> s, total |-> t])
                           /\ printed' = Append(printed \o line,
                                   print_group_summary([successful |-> s, total |-> t]))
                           /\ pc' = "save"
                      ELSE /\ printed' = printed \o line
                           /\ UNCHANGED <<group_stats, pc>>
                   /\ UNCHANGED abort
    /\ UNCHANGED <<group_idx, spawn_i, header_end>>
    /\ UNCHANGED <<inputVars, runnerVars, sharedVars, probeVars>>
    /\ UNCHANGED <<written, delays, log_path>>

\* ------------------------------------------------------ Report Writer
\* write_top_configs: .take(10)
TopN == 10

\* f32::partial_cmp(..) == Some(Greater); a NaN compares with nothing
F32Greater(x, y) == ~DividedByZero(x) /\ ~DividedByZero(y) /\ x.num * y.den > y.num * x.den

\* a ranking by the number of successful domains alone
RankBefore_ByCountOnly(a, b) == Len(a.successful_domains) > Len(b.successful_domains)

\* write_top_configs, the closure of sort_by says Less for (a, b):
\* b.success_rate.partial_cmp(&a.success_rate).unwrap_or(Equal)
\*     .then_with(|| b.successful_domains.len().cmp(&a.successful_domains.len()))
RankBefore(a, b) ==
    \/ F32Greater(a.success_rate, b.success_rate)
    \/ /\ ~F32Greater(b.success_rate, a.success_rate)
       /\ Len(a.successful_domains) > Len(b.successful_domains)

\* slice::sort_by is stable: e, which came after every element of sorted, goes
\* in front of the first element it ranks before
SortInsert(sorted, e) ==
    LET before == {i \in 1..Len(sorted) : RankBefore(e, sorted[i])}
        at == IF before = {} THEN Len(sorted) + 1
              ELSE CHOOSE i \in before : \A j \in before : i <= j
    IN  SubSeq(sorted, 1, at - 1) \o <<e>> \o SubSeq(sorted, at, Len(sorted))

\* write_top_configs: sorted_results.sort_by(..)
RECURSIVE sort_by(_)
sort_by(rs) ==
    IF rs = <<>> THEN <<>>
    ELSE SortInsert(sort_by(SubSeq(rs, 1, Len(rs) - 1)), rs[Len(rs)])

\* format!("{:.1}", success_rate): the tenths of a percent printed (within the
\* bounds no rate lies halfway between two tenths); -1 stands for the text NaN
FormatRate(x) == IF x.den = 0 THEN -1 ELSE (x.num * 20 + x.den) \div (2 * x.den)

\* write_top_configs, the two lines of one ranked entry
TopEntry(rank, result) ==
    [rank |-> rank,
     config |-> result.config,
     port |-> result.socks5_port,
     successful |-> Len(result.successful_domains),
     total |-> Len(result.successful_domains) + Len(result.failed_domains),
     rate |-> FormatRate(result.success_rate)]

\* write_top_configs: for (rank, result) in sorted_results.iter().take(10).enumerate()
write_top_configs(rs) ==
    [k \in 1..Min(TopN, Len(rs)) |-> TopEntry(k, sort_by(rs)[k])]

\* write_single_result: index, config, port, rate (successful/total), the domains
write_single_result(index, result) ==
    [index |-> index,
     config |-> result.config,
     port |-> result.socks5_port,
     rate |-> FormatRate(result.success_rate),
     successful |-> Len(result.successful_domains),
     total |-> Len(result.successful_domains) + Len(result.failed_domains),
     successful_domains |-> result.successful_domains,
     failed_domains |-> result.failed_domains]

\* a detailed section that lists only the results with a successful domain
write_detailed_results_WorkingOnly(rs) ==
    LET kept == SelectIdx(Len(rs), [i \in 1..Len(rs) |-> rs[i].successful_domains # <<>>])
    IN  [k \in 1..Len(kept) |-> write_single_result(k, rs[kept[k]])]

\* write_detailed_results: for (idx, result) in results.iter().enumerate()
write_detailed_results(rs) == [k \in 1..Len(rs) |-> write_single_result(k, rs[k])]

\* a report file opened to append: the detailed section comes after the one
\* that was in the file
Report_Appending(rs, now) ==
    [generated |-> now,
     total_configs |-> Len(rs),
     top |-> write_top_configs(rs),
     detailed |-> (IF written = <<>> THEN <<>> ELSE written[Len(written)].detailed)
                     \o write_detailed_results(rs)]

\* write_results_file: write_header (Generated: now, Total configs tested),
\* write_top_configs, write_detailed_results
Report(rs, now) ==
    [generated |-> now,
     total_configs |-> Len(rs),
     top |-> write_top_configs(rs),
     detailed |-> write_detailed_results(rs)]

\* Local::now() of write_header: a clock that has advanced since the last report
Now == Len(written) + 1

\* a write_results_file that returns Ok without having written the report
ReportsAfterWrite_NoWrite(rs) == written

\* write_results_file returned Ok: one more report has been written in full
ReportsAfterWrite(rs) == Append(written, Report(rs, Now))

\* show_final_results: total, successful, format!("{:.1}%", stats.success_rate())
show_final_results(stats) ==
    [kind |-> "total", successful |-> stats.successful, total |-> stats.total,
     value |-> GroupStats_success_rate(stats),
     rate |-> FormatRate(GroupStats_success_rate(stats))]

\* write_results_file: OpenOptions ... truncate(true).open(filepath)?
FileTruncated == [state |-> "truncated", results |-> <<>>]

\* write_results_file: header, top configs, detailed results, flush, all of them Ok
FileWritten(rs) == [state |-> "complete", results |-> rs]

\* write_results_file: a writeln! or the flush failed after the truncation
FilePartial == [state |-> "partial", results |-> <<>>]

\* run_all_groups: save_intermediate_results(..).await? returns the error to main
SaveFailed ==
    /\ Abort("save")
    /\ UNCHANGED group_idx

\* save_intermediate_results: results.lock().await, then the open of write_results_file
SaveOpen ==
    /\ pc = "save"
    /\ lock = 0
    /\ \E open_ok \in BOOLEAN :
         IF open_ok
         THEN /\ lock' = -1
              /\ file' = FileTruncated
              /\ pc' = "write"
              /\ UNCHANGED <<abort, group_idx>>
         ELSE /\ SaveFailed
              /\ UNCHANGED <<lock, file>>
    /\ UNCHANGED <<spawn_i, await_i, successful_total, tests_total, group_stats, header_end>>
    /\ UNCHANGED <<inputVars, runnerVars, results, pushed_by, probeVars>>
    /\ UNCHANGED logVars

\* a loop that sleeps after every group, the last one too
DelayDue_AfterEveryGroup(group_number) == TRUE

\* run_all_groups: if group_number < total_groups { wait_between_groups(..) }
DelayDue(group_number) == group_number < total_groups

\* save_intermediate_results: the writes of write_results_file, the guard dropped;
\* then run_all_groups: if group_number < total_groups the delay, else the loop ends
SaveWrite ==
    /\ pc = "write"
    /\ lock' = 0
    /\ \E write_ok \in BOOLEAN :
         IF write_ok
         THEN /\ file' = FileWritten(results)
              /\ written' = ReportsAfterWrite(results)
              /\ UNCHANGED abort
              /\ IF DelayDue(group_idx + 1)
                 THEN pc' = "delay" /\ UNCHANGED group_idx
                 ELSE pc' = "finalize" /\ group_idx' = group_idx + 1
         ELSE /\ file' = FilePartial
              /\ SaveFailed
              /\ UNCHANGED written
    /\ UNCHANGED <<spawn_i, await_i, successful_total, tests_total, group_stats, header_end>>
    /\ UNCHANGED <<inputVars, runnerVars, results, pushed_by, probeVars>>
    /\ UNCHANGED <<printed, delays, log_path>>

\* wait_between_groups, then the next turn of the loop of run_all_groups
WaitBetweenGroups ==
    /\ pc = "delay"
    /\ pc' = "header"
    /\ group_idx' = group_idx + 1
    /\ delays' = delays + 1
    /\ UNCHANGED <<abort, spawn_i, await_i, successful_total, tests_total, group_stats, header_end>>
    /\ UNCHANGED <<inputVars, runnerVars, sharedVars, probeVars>>
    /\ UNCHANGED <<printed, written, log_path>>

\* finalize_results: results.lock().await, then the open of write_results_file
FinalizeOpen ==
    /\ pc = "finalize"
    /\ lock = 0
    /\ \E open_ok \in BOOLEAN :
         IF open_ok
         THEN /\ lock' = -1
              /\ file' = FileTruncated
              /\ pc' = "final_write"
              /\ UNCHANGED abort
         ELSE /\ Abort("final")
              /\ UNCHANGED <<lock, file>>
    /\ UNCHANGED <<group_idx, spawn_i, await_i, successful_total, tests_total, group_stats, header_end>>
    /\ UNCHANGED <<inputVars, runnerVars, results, pushed_by, probeVars>>
    /\ UNCHANGED logVars

\* finalize_results: the writes of write_results_file, show_final_results; main ends
FinalizeWrite ==
    /\ pc = "final_write"
    /\ lock' = 0
    /\ \E write_ok \in BOOLEAN :
         IF write_ok
         THEN /\ file' = FileWritten(results)
              /\ written' = ReportsAfterWrite(results)
              /\ printed' = Append(printed,
                                   show_final_results(calculate_total_stats(group_stats)))
              /\ UNCHANGED <<delays, log_path>>
              /\ pc' = "done"
              /\ UNCHANGED abort
         ELSE /\ file' = FilePartial
              /\ Abort("final")
              /\ UNCHANGED logVars
    /\ UNCHANGED <<group_idx, spawn_i, await_i, successful_total, tests_total, group_stats, header_end>>
    /\ UNCHANGED <<inputVars, runnerVars, results, pushed_by, probeVars>>

\* ------------------------------------------------------ Config Runner
\* the seconds since the epoch that SystemTime::now() can give during the run
MaxSeconds == 0

\* sanitize_filename, the base: the first whitespace token of the configuration,
\* its first 20 chars, of them the alphanumeric ones, '-' and '_'
SanitizedBase(config) ==
    IF config \in {"cfgA -x", "cfgA -y"} THEN "cfgA"
    ELSE IF config = "cfg.B" THEN "cfgB" ELSE config

\* a file name without the port
sanitize_filename_NoPort(config, socks5_port, now) ==
    [base |-> SanitizedBase(config), p |-> 0, t |-> now]

\* sanitize_filename: format!("{}_p{}_t{}", base, port, timestamp)
sanitize_filename(config, socks5_port, now) ==
    [base |-> SanitizedBase(config), p |-> socks5_port, t |-> now]

\* start_ciadpi_process: group_dir.join(format!("ciadpi_{}.log", log_file_name)),
\* group_dir being session_dir/group_{group_number}
LogPath(group_number, config, socks5_port, now) ==
    [dir |-> group_number, name |-> sanitize_filename(config, socks5_port, now)]

\* run_config_test: start_ciadpi_process(..)?  The log file cannot be opened (or
\* cloned), the binary cannot be spawned, or the Child is there; an Err ends the
\* task with None (.ok() of spawn_config_test)
StartProcess(r) ==
    /\ rstate[r] = "spawned"
    /\ \E outcome \in {"log_err", "spawn_err", "ok"}, now \in 0..MaxSeconds :
         /\ IF outcome = "ok"
            THEN /\ proc' = [proc EXCEPT ![r] = "alive"]
                 /\ rstate' = [rstate EXCEPT ![r] = "running"]
            ELSE /\ rstate' = [rstate EXCEPT ![r] = "none"]
                 /\ UNCHANGED proc
         /\ IF outcome = "log_err"
            THEN UNCHANGED log_path
            ELSE log_path' = [log_path EXCEPT ![r] = LogPath(GroupOf(r), configs[r], port[r], now)]
    /\ UNCHANGED <<port, succ, fail>>
    /\ UNCHANGED <<inputVars, schedVars, sharedVars, probeVars>>
    /\ UNCHANGED <<printed, written, delays>>

\* run_config_test: time::sleep(ciadpi_start_delay_ms) is over, test_all_domains begins
ReadinessElapsed(r) ==
    /\ rstate[r] = "running"
    /\ rstate' = [rstate EXCEPT ![r] = "probing"]
    /\ UNCHANGED <<port, proc, succ, fail>>
    /\ UNCHANGED <<inputVars, schedVars, sharedVars, probeVars>>
    /\ UNCHANGED logVars

\* test_all_domains: every test_domain returned; the outcomes are partitioned
ProbesComplete(r) ==
    /\ rstate[r] = "probing"
    /\ \E w \in [1..Len(domains) -> ProbeInputs] :
         LET ok == [d \in 1..Len(domains) |->
                       test_domain(w[d].client_ok, w[d].https, w[d].http)]
         IN  /\ succ' = [succ EXCEPT ![r] = Partition(ok).successful]
             /\ fail' = [fail EXCEPT ![r] = Partition(ok).failed]
    /\ rstate' = [rstate EXCEPT ![r] = "probed"]
    /\ UNCHANGED <<port, proc>>
    /\ UNCHANGED <<inputVars, schedVars, sharedVars, probeVars>>
    /\ UNCHANGED logVars

\* std::process::Child has no Drop: a Child dropped by unwinding keeps running
ProcAfterPanic(r) == proc[r]

\* a test_domain future panics inside join_all: the panic unwinds run_config_test,
\* the task ends with a JoinError (Err(e) of process_group), stop_process is not run
ProbePanic(r) ==
    /\ rstate[r] = "probing"
    /\ Len(domains) > 0
    /\ rstate' = [rstate EXCEPT ![r] = "panicked"]
    /\ proc' = [proc EXCEPT ![r] = ProcAfterPanic(r)]
    /\ UNCHANGED <<port, succ, fail>>
    /\ UNCHANGED <<inputVars, schedVars, sharedVars, probeVars>>
    /\ UNCHANGED logVars

\* stop_process: let _ = child.kill(); let _ = child.wait();  wait returns Ok once
\* the process has exited (killed, or by itself when the kill failed) and reaps it
ProcAfterStop(r, kill_ok, wait_ok) ==
    IF wait_ok THEN "reaped"
    ELSE IF kill_ok THEN "zombie" ELSE proc[r]

\* a run_config_test that does not await test_all_domains before stop_process
ProbesReturned_NotAwaited(r) == rstate[r] \in {"probing", "probed"}

\* run_config_test: test_all_domains(..).await has returned (successful, failed)
ProbesReturned(r) == rstate[r] = "probed"

\* run_config_test: stop_process(&mut process)
StopProcess(r) ==
    /\ ProbesReturned(r)
    /\ \E kill_ok \in BOOLEAN, wait_ok \in BOOLEAN :
         proc' = [proc EXCEPT ![r] = ProcAfterStop(r, kill_ok, wait_ok)]
    /\ rstate' = [rstate EXCEPT ![r] = "stopped"]
    /\ UNCHANGED <<port, succ, fail>>
    /\ UNCHANGED <<inputVars, schedVars, sharedVars, probeVars>>
    /\ UNCHANGED logVars

\* run_config_test: results.lock().await
LockResults(r) ==
    /\ rstate[r] = "stopped"
    /\ lock = 0
    /\ lock' = r
    /\ rstate' = [rstate EXCEPT ![r] = "locked"]
    /\ UNCHANGED <<port, proc, succ, fail, results, file, pushed_by>>
    /\ UNCHANGED <<inputVars, schedVars, probeVars>>
    /\ UNCHANGED logVars

\* an insert(0, ..) in place of the push
VecPush_Front(v, x) == <<x>> \o v

\* Vec::push: the element goes to the end, the others stay
VecPush(v, x) == Append(v, x)

\* a guard bound to a variable that lives on after the push
LockAfterPush_Held(r) == r

\* results.lock().await.push(result): the guard is a temporary of the statement
\* and is dropped at its end
LockAfterPush(r) == 0

\* run_config_test: .push(result), the guard dropped, Ok((config_name, successful, total))
PushResult(r) ==
    /\ rstate[r] = "locked"
    /\ results' = VecPush(results, TestResult_new(configs[r], port[r], succ[r], fail[r]))
    /\ pushed_by' = VecPush(pushed_by, r)
    /\ lock' = LockAfterPush(r)
    /\ rstate' = [rstate EXCEPT ![r] = "some"]
    /\ UNCHANGED <<port, proc, succ, fail, file>>
    /\ UNCHANGED <<inputVars, schedVars, probeVars>>
    /\ UNCHANGED logVars

Runner(r) ==
    \/ StartProcess(r)
    \/ ReadinessElapsed(r)
    \/ ProbesComplete(r)
    \/ ProbePanic(r)
    \/ StopProcess(r)
    \/ LockResults(r)
    \/ PushResult(r)

Next ==
    \/ BeginGroup
    \/ SpawnConfigTest
    \/ AwaitTask
    \/ SaveOpen
    \/ SaveWrite
    \/ WaitBetweenGroups
    \/ FinalizeOpen
    \/ FinalizeWrite
    \/ \E r \in Runners : Runner(r)

Spec == Init /\ [][Next]_vars

\* the main task: run_all_groups and finalize_results
Scheduler ==
    \/ BeginGroup
    \/ SpawnConfigTest
    \/ AwaitTask
    \/ SaveOpen
    \/ SaveWrite
    \/ WaitBetweenGroups
    \/ FinalizeOpen
    \/ FinalizeWrite

\* the tokio runtime polls every task that can make a step; every sleep, request
\* (timeout_sec), spawn, kill and wait returns
SpecFair ==
    /\ Init
    /\ [][Next]_vars
    /\ WF_vars(Scheduler)
    /\ \A r \in Runners : WF_vars(Runner(r))


\* ------------------------------------------- Domain Probe, step by step
ProbeDomains == 3

\* the run at the moment the followed runner enters test_all_domains: one group of
\* two configurations, both runners past the readiness sleep
InitProbe ==
    /\ configs = SubSeq(AllConfigs, 1, 2)
    /\ domains = SubSeq(AllDomains, 1, ProbeDomains)
    /\ group_size = 2
    /\ start_port = BasePort
    /\ build = "release"
    /\ pc = "await"
    /\ abort = ""
    /\ group_idx = 0
    /\ spawn_i = 2
    /\ await_i = 0
    /\ successful_total = 0
    /\ tests_total = 0
    /\ group_stats = <<>>
    /\ header_end = BasePort + 1
    /\ rstate = [r \in Runners |-> IF r <= 2 THEN "probing" ELSE "idle"]
    /\ port = [r \in Runners |-> IF r <= 2 THEN AssignPort(0, r - 1) ELSE 0]
    /\ proc = [r \in Runners |-> IF r <= 2 THEN "alive" ELSE "none"]
    /\ succ = [r \in Runners |-> <<>>]
    /\ fail = [r \in Runners |-> <<>>]
    /\ results = <<>>
    /\ lock = 0
    /\ file = NoFile
    /\ pushed_by = <<>>
    /\ printed = <<>>
    /\ written = <<>>
    /\ delays = 0
    /\ log_path = [r \in Runners |-> NoPath]
    /\ probe_runner \in 1..2
    /\ probe_world \in [1..ProbeDomains -> [https : Outcomes, http : Outcomes]]
    /\ probe_client = [d \in 1..ProbeDomains |-> "unbuilt"]
    /\ probe_pc = [d \in 1..ProbeDomains |-> "client"]
    /\ probe_log = [d \in 1..ProbeDomains |-> <<>>]
    /\ probe_ok = [d \in 1..ProbeDomains |-> FALSE]
    /\ probe_result = <<>>

\* test_domain: create_http_client(port, timeout_sec); Err(_) => return (domain, false)
CreateClient(d) ==
    /\ probe_pc[d] = "client"
    /\ \E client_ok \in BOOLEAN :
         /\ probe_client' = [probe_client EXCEPT ![d] = IF client_ok THEN "ok" ELSE "err"]
         /\ probe_pc' = [probe_pc EXCEPT ![d] = IF client_ok THEN "https" ELSE "done"]
         /\ probe_ok' = [probe_ok EXCEPT ![d] = test_domain(client_ok, "transport_err", "transport_err")]
    /\ UNCHANGED <<probe_runner, probe_world, probe_log, probe_result, mainVars>>

\* test_domain: try_https(&client, &domain).await.unwrap_or(false)
TryHttps(d) ==
    /\ probe_pc[d] = "https"
    /\ probe_log' = [probe_log EXCEPT ![d] = Append(@, "https")]
    /\ IF FallbackNeeded(try_request(probe_world[d].https))
       THEN /\ probe_pc' = [probe_pc EXCEPT ![d] = "http"]
            /\ UNCHANGED probe_ok
       ELSE /\ probe_pc' = [probe_pc EXCEPT ![d] = "done"]
            /\ probe_ok' = [probe_ok EXCEPT ![d] =
                               unwrap_or_false(try_request(probe_world[d].https))]
    /\ UNCHANGED <<probe_runner, probe_world, probe_client, probe_result, mainVars>>

\* test_domain: try_http(&client, &domain).await.unwrap_or(false)
TryHttp(d) ==
    /\ probe_pc[d] = "http"
    /\ probe_log' = [probe_log EXCEPT ![d] = Append(@, "http")]
    /\ probe_pc' = [probe_pc EXCEPT ![d] = "done"]
    /\ probe_ok' = [probe_ok EXCEPT ![d] =
                       unwrap_or_false(try_request(probe_world[d].http))]
    /\ UNCHANGED <<probe_runner, probe_world, probe_client, probe_result, mainVars>>

\* test_all_domains: join_all returned, partition; run_config_test: TestResult::new
JoinAll ==
    /\ probe_result = <<>>
    /\ \A d \in 1..Len(domains) : probe_pc[d] = "done"
    /\ probe_result' = <<TestResult_new(configs[probe_runner], port[probe_runner],
                                        Partition(probe_ok).successful,
                                        Partition(probe_ok).failed)>>
    /\ UNCHANGED <<probe_runner, probe_world, probe_client, probe_pc, probe_log, probe_ok, mainVars>>

NextProbe ==
    \/ \E d \in 1..ProbeDomains : CreateClient(d) \/ TryHttps(d) \/ TryHttp(d)
    \/ JoinAll

SpecProbe == InitProbe /\ [][NextProbe]_vars


\* ------------------------------------- Report Writer, on any results slice
MaxRanked == 11
MaxShortRanked == 2

\* the (successful, failed) domains of the results the slices are built from:
\* 0/0, 1/1, 1/2, 2/4, 0/1, 2/2
RankPool ==
    << [successful |-> <<>>, failed |-> <<>>],
       [successful |-> <<"A">>, failed |-> <<>>],
       [successful |-> <<"A">>, failed |-> <<"B">>],
       [successful |-> <<"A", "B">>, failed |-> <<"C", "D">>],
       [successful |-> <<>>, failed |-> <<"A">>],
       [successful |-> <<"A", "B">>, failed |-> <<>>] >>

\* every short choice from the pool, and longer ones that walk the pool
RankPicks ==
    UNION {[1..n -> 1..Len(RankPool)] : n \in 0..MaxShortRanked}
    \cup {[k \in 1..n |-> ((o + k * st) % Len(RankPool)) + 1] :
             n \in (TopN - 1)..MaxRanked, o \in 1..Len(RankPool), st \in {1, 5}}

\* the TestResults a choice stands for, each with a port of its own
RankInput(picks) ==
    [k \in 1..Len(picks) |->
        TestResult_new(AllConfigs[((k - 1) % Len(AllConfigs)) + 1], BasePort + k - 1,
                       RankPool[picks[k]].successful, RankPool[picks[k]].failed)]

\* finalize_results is entered with a results vector; the rest of the run stands still
InitRank ==
    /\ configs = SubSeq(AllConfigs, 1, 2)
    /\ domains = SubSeq(AllDomains, 1, 2)
    /\ group_size = 2
    /\ start_port = BasePort
    /\ build = "release"
    /\ pc = "finalize"
    /\ abort = ""
    /\ group_idx = 1
    /\ spawn_i = 2
    /\ await_i = 2
    /\ successful_total = 0
    /\ tests_total = 0
    /\ group_stats = <<>>
    /\ header_end = BasePort + 1
    /\ rstate = [r \in Runners |-> "idle"]
    /\ port = [r \in Runners |-> 0]
    /\ proc = [r \in Runners |-> "none"]
    /\ succ = [r \in Runners |-> <<>>]
    /\ fail = [r \in Runners |-> <<>>]
    /\ \E picks \in RankPicks :
         /\ results = RankInput(picks)
         /\ pushed_by = [k \in 1..Len(picks) |-> k]
    /\ lock = 0
    /\ file = NoFile
    /\ printed = <<>>
    /\ written = <<>>
    /\ delays = 0
    /\ log_path = [r \in Runners |-> NoPath]
    /\ ProbeIdle

NextRank ==
    \/ FinalizeOpen
    \/ FinalizeWrite

SpecRank == InitRank /\ [][NextRank]_vars


\* ============================================================== claims
Loaded == 1..Len(configs)
Spawned == {r \in Loaded : rstate[r] # "idle"}
TeardownAttempted(r) == rstate[r] \in {"stopped", "locked", "some"}
LoopEnded == pc \in {"finalize", "final_write", "done"}

\* C1 (as claimed): every configuration handed to a runner has the port
\* start_port + i, i its 0-based position inside its group of consecutive
\* configurations, and a run whose loop ended has processed exactly
\* ceil(len / group_size) groups.
C1_GroupsAndPorts ==
    /\ \A r \in Spawned : port[r] = start_port + ((r - 1) % group_size)
    /\ \A r \in Spawned : \A q \in Spawned :
          (r # q /\ GroupOf(r) = GroupOf(q)) => port[r] # port[q]
    /\ LoopEnded => /\ Len(group_stats) = (Len(configs) + group_size - 1) \div group_size
                    /\ Spawned = Loaded

\* C2 (as claimed): no two proxy processes are alive on the same port, whatever
\* spawn, probe, kill and wait return.
C2_OneProcessPerPort ==
    \A r \in Loaded : \A q \in Loaded :
        (r # q /\ proc[r] = "alive" /\ proc[q] = "alive") => port[r] # port[q]

\* C3: group barrier.  Runner tasks that are active at the same time belong to
\* the same group, and a runner of a later group exists only when every runner
\* task of every earlier group has ended, with a result (Some), with a setup
\* failure (None) or with a task failure (JoinError).
C3_GroupBarrier ==
    /\ \A r \in Loaded : \A q \in Loaded :
          (rstate[r] \in Active /\ rstate[q] \in Active) => GroupOf(r) = GroupOf(q)
    /\ \A r \in Loaded : \A q \in Spawned :
          GroupOf(r) < GroupOf(q) => rstate[r] \in Finished

\* C3 witness: a runner of the second group is at work after the first group
\* ended with a task failure and a setup failure.
C3_Witness ==
    /\ group_size = 2
    /\ Len(configs) = 3
    /\ rstate[1] = "panicked"
    /\ rstate[2] = "none"
    /\ rstate[3] \in Active

\* C4 (as claimed): at most group_size proxy processes are alive at any time.
C4_AtMostGroupSizeAlive ==
    Cardinality({r \in Loaded : proc[r] = "alive"}) <= group_size

\* C5: failure isolation.  A runner that ended with None or with a JoinError has
\* pushed no TestResult; the GroupStats of every finished group is the sum of the
\* counts of the TestResults its runners pushed; a runner's failure never ends
\* the run; and in a completed run every configuration was run and has a
\* TestResult unless its own runner failed.
GroupEntries(g) == {k \in 1..Len(results) : GroupOf(pushed_by[k]) = g}
C5_FailureIsolation ==
    /\ \A r \in Loaded : rstate[r] \in {"none", "panicked"} =>
          \A k \in 1..Len(pushed_by) : pushed_by[k] # r
    /\ \A g \in 1..Len(group_stats) :
          /\ group_stats[g].successful =
                SumOver([k \in 1..Len(results) |-> Len(results[k].successful_domains)],
                        GroupEntries(g))
          /\ group_stats[g].total =
                SumOver([k \in 1..Len(results) |->
                            Len(results[k].successful_domains) + Len(results[k].failed_domains)],
                        GroupEntries(g))
    /\ abort # "task"
    /\ pc = "done" =>
          \A r \in Loaded :
              /\ rstate[r] \in Finished
              /\ rstate[r] = "some" <=> \E k \in 1..Len(pushed_by) : pushed_by[k] = r

\* C5 witness: a completed run of two groups in which one runner of the first
\* group could not start its process, the other's task failed, and the
\* configuration of the second group has its TestResult, counted in its GroupStats.
C5_Witness ==
    /\ pc = "done"
    /\ group_size = 2
    /\ Len(configs) = 3
    /\ Len(domains) = 2
    /\ rstate[1] = "none"
    /\ rstate[2] = "panicked"
    /\ rstate[3] = "some"
    /\ group_stats = <<[successful |-> 0, total |-> 0], [successful |-> 1, total |-> 2]>>

\* C6 (as claimed): a failed write of the report after a group does not stop the run.
C6_WriteFailureContinues == abort # "save"

\* C7 (as claimed): once group processing has begun no error ends the run before
\* every group was processed.
C7_NoErrorAbortsRun ==
    (pc = "aborted" /\ abort \in {"mkdir", "save", "final", "task"}) =>
        Len(group_stats) = (Len(configs) + group_size - 1) \div group_size

\* C8 (as claimed): a runner whose process was started ends only after
\* stop_process was run on it.
C8_TeardownOnEveryExit ==
    \A r \in Loaded :
        (rstate[r] \in Finished /\ proc[r] # "none") => TeardownAttempted(r)


\* --------------------------------------------------- claims of SpecProbe
Probed == 1..Len(probe_pc)
BothAttempts == <<"https", "http">>

\* C9 (as claimed): a domain is reported failed only after an HTTPS attempt and
\* then an HTTP attempt were made for it.
C9_FailedOnlyAfterBoth ==
    \A d \in Probed :
        (probe_pc[d] = "done" /\ ~probe_ok[d]) => probe_log[d] = BothAttempts

\* C9 (amended): HTTP is never requested before HTTPS; a probe whose client was
\* built and whose HTTPS attempt did not return 2xx (a transport failure or another
\* status) requests HTTP before it returns; and a domain is reported failed only
\* after both requests, or with no request at all when create_http_client failed.
C9_FallbackOrder ==
    \A d \in Probed :
        /\ probe_log[d] \in {<<>>, <<"https">>, BothAttempts}
        /\ (probe_pc[d] = "done" /\ probe_client[d] = "ok"
               /\ probe_world[d].https # "2xx") => probe_log[d] = BothAttempts
        /\ (probe_pc[d] = "done" /\ ~probe_ok[d]) =>
               \/ probe_log[d] = BothAttempts
               \/ probe_client[d] = "err" /\ probe_log[d] = <<>>

\* C9 witness: a probe that got a non-2xx status over HTTPS, then failed over HTTP
\* too, and reported the domain failed.
C9_Witness ==
    \E d \in Probed :
        /\ probe_pc[d] = "done"
        /\ ~probe_ok[d]
        /\ probe_world[d].https = "non2xx"
        /\ probe_log[d] = BothAttempts

AnswersOk(d) == probe_world[d].https = "2xx" \/ probe_world[d].http = "2xx"

\* the scenario of the claim: A answers 2xx over HTTPS, B fails HTTPS and answers
\* 2xx over HTTP, C fails both
ScenarioWorld ==
    /\ probe_world[1] = [https |-> "2xx", http |-> "transport_err"]
    /\ probe_world[2] = [https |-> "transport_err", http |-> "2xx"]
    /\ probe_world[3] = [https |-> "transport_err", http |-> "transport_err"]

ScenarioResult ==
    /\ probe_result[1].successful_domains = <<"A", "B">>
    /\ probe_result[1].failed_domains = <<"C">>
    /\ probe_result[1].success_rate.num * 3 = 200 * probe_result[1].success_rate.den

\* C10: probe outcome.  A probe that sends its requests (its HTTP client was
\* built) returns true exactly when HTTPS or HTTP answers 2xx, for each of the nine
\* combinations of {2xx, non-2xx, transport failure}; a probe that could send
\* none returns false.  In the scenario (A: 2xx over HTTPS; B: HTTPS fails, 2xx
\* over HTTP; C: both fail) the TestResult of either configuration is successful
\* <<A, B>>, failed <<C>>, success rate 2/3.
C10_ProbeOutcome ==
    /\ \A d \in Probed :
          probe_pc[d] = "done" =>
              (probe_ok[d] <=> (probe_client[d] = "ok" /\ AnswersOk(d)))
    /\ (/\ probe_result # <<>>
        /\ ScenarioWorld
        /\ \A d \in Probed : probe_client[d] = "ok") => ScenarioResult

\* C10 witness: the scenario was run with every client built and its TestResult
\* is there, for the second configuration of the group.
C10_Witness ==
    /\ probe_result # <<>>
    /\ ScenarioWorld
    /\ probe_runner = 2
    /\ \A d \in Probed : probe_client[d] = "ok"
    /\ probe_log = <<<<"https">>, BothAttempts, BothAttempts>>
    /\ ScenarioResult

\* ------------------------------------------------------------- C11
EmptyResult(r) == Len(r.successful_domains) + Len(r.failed_domains) = 0

\* C11 (as claimed): every success-rate computation - of a TestResult, of a
\* GroupStats, of the percentage printed for a configuration - yields 0 when the
\* total is 0 and never divides by zero.
C11_NeverDividesByZero ==
    /\ \A k \in 1..Len(results) :
          /\ ~DividedByZero(results[k].success_rate)
          /\ EmptyResult(results[k]) => results[k].success_rate = F32Zero
    /\ \A k \in 1..Len(printed) :
          /\ ~DividedByZero(printed[k].value)
          /\ printed[k].total = 0 => printed[k].rate = 0

\* C11 (amended): every success-rate computation yields 0 when the total is 0.
\* TestResult::new and GroupStats::success_rate do not divide then and give 0.0;
\* print_config_result divides 0.0 by 0.0, gets NaN, and the cast to u32 gives 0.
C11_ZeroTotalRateIsZero ==
    /\ \A k \in 1..Len(results) :
          /\ ~DividedByZero(results[k].success_rate)
          /\ EmptyResult(results[k]) => results[k].success_rate = F32Zero
    /\ \A k \in 1..Len(printed) :
          /\ printed[k].total = 0 => printed[k].rate = 0
          /\ printed[k].kind \in {"group", "total"} =>
                /\ ~DividedByZero(printed[k].value)
                /\ printed[k].total = 0 => printed[k].value = F32Zero
          /\ printed[k].kind = "config" =>
                (DividedByZero(printed[k].value) <=> printed[k].total = 0)
          /\ printed[k].kind = "config" /\ printed[k].total = 0 => IsNaN(printed[k].value)

\* a runner completed with an empty domain list, its percentage and the
\* percentage of its group were printed
C11_Witness ==
    /\ \E k \in 1..Len(results) : EmptyResult(results[k])
    /\ \E k \in 1..Len(printed) : printed[k].kind = "config" /\ printed[k].total = 0
    /\ \E k \in 1..Len(printed) : printed[k].kind = "group" /\ printed[k].total = 0

\* ------------------------------------------------------------- C12
\* the rate and the count a ranked entry shows as (successful/total)
EntryRate(e) == IF e.total = 0 THEN F32Zero ELSE F32Percent(e.successful, e.total)
LastReport == written[Len(written)]
RankedPorts == {LastReport.top[i].port : i \in 1..Len(LastReport.top)}

\* C12: the ranked section of a report is ordered by success rate descending,
\* ties broken by successful-domain count descending: of any two entries the
\* earlier has a strictly higher rate, or an equal rate and a count that is not
\* lower.  It has min(10, number of results) entries, each the entry of one
\* result of the snapshot, and no result left out ranks before a listed one.
C12_RankedSection ==
    written # <<>> =>
      LET top == LastReport.top IN
      /\ Len(top) = Min(TopN, Len(results))
      /\ \A i \in 1..Len(top) : \A j \in 1..Len(top) :
            i < j =>
              \/ F32Greater(EntryRate(top[i]), EntryRate(top[j]))
              \/ /\ ~F32Greater(EntryRate(top[j]), EntryRate(top[i]))
                 /\ top[i].successful >= top[j].successful
      /\ \A i \in 1..Len(top) :
            /\ top[i].rank = i
            /\ \E k \in 1..Len(results) : top[i] = TopEntry(i, results[k])
            /\ \A j \in 1..Len(top) : i # j => top[i].port # top[j].port
      /\ \A k \in 1..Len(results) :
            results[k].socks5_port \notin RankedPorts =>
              \A i \in 1..Len(top) :
                 LET e == TopEntry(0, results[k]) IN
                 /\ ~F32Greater(EntryRate(e), EntryRate(top[i]))
                 /\ F32Greater(EntryRate(top[i]), EntryRate(e))
                      \/ top[i].successful >= e.successful

\* a report of more than ten results: its ranked section has entries of equal
\* rate and different counts, and entries of different rates
C12_Witness ==
    /\ written # <<>>
    /\ Len(results) > TopN
    /\ \E i \in 1..Len(LastReport.top) : \E j \in 1..Len(LastReport.top) :
          /\ i < j
          /\ ~F32Greater(EntryRate(LastReport.top[i]), EntryRate(LastReport.top[j]))
          /\ LastReport.top[i].successful > LastReport.top[j].successful
    /\ \E i \in 1..Len(LastReport.top) : \E j \in 1..Len(LastReport.top) :
          F32Greater(EntryRate(LastReport.top[i]), EntryRate(LastReport.top[j]))

\* ------------------------------------------------------------- C13
\* the groups whose runners have all been joined
GroupsDrained ==
    IF pc \in {"header", "spawn", "await"} THEN group_idx
    ELSE IF pc \in {"save", "write", "delay"} THEN group_idx + 1
    ELSE Len(group_stats)

\* C13: in a run of n groups the report is written in full after each group has
\* drained and once more at run completion, in that order: the k-th full write
\* (k <= n) is made when every runner of group k and of the groups before it has
\* completed and no runner of group k+1 has started, the next group does not
\* begin before it, and the (n+1)-th is the one that ends the run.
C13_WriteAfterEachGroup ==
    /\ [](/\ pc \in {"header", "spawn", "await", "save", "write"} => Len(written) = group_idx
          /\ pc = "delay" => Len(written) = group_idx + 1
          /\ pc \in {"finalize", "final_write"} => Len(written) = total_groups
          /\ pc = "done" => Len(written) = total_groups + 1
          /\ Len(written) <= GroupsDrained + 1
          /\ \A k \in 1..Len(written) : written[k].generated = k)
    /\ [][written' # written =>
            /\ written' = Append(written, Report(results, Len(written) + 1))
            /\ IF Len(written) < total_groups
               THEN /\ pc' \in {"delay", "finalize"}
                    /\ \A r \in Loaded :
                          /\ GroupOf(r) <= Len(written) + 1 => rstate[r] \in Finished
                          /\ GroupOf(r) > Len(written) + 1 => rstate[r] = "idle"
               ELSE /\ pc' = "done"
                    /\ \A r \in Loaded : rstate[r] \in Finished]_vars

\* a run of two groups or more has ended: each group's write and the final one
\* were made, and the first one already held a result
C13_Witness ==
    /\ pc = "done"
    /\ total_groups >= 2
    /\ Len(written) = total_groups + 1
    /\ written[1].total_configs >= 1
    /\ written[total_groups].total_configs > written[1].total_configs

\* ------------------------------------------------------------- C14
\* C14 (as claimed): once a report has been written, whoever opens the report
\* file, at any moment, reads a complete report - the one written last or the
\* one being written - never an empty or partial file.
C14_ReaderSeesWholeReport ==
    written # <<>> =>
      /\ file.state = "complete"
      /\ \E k \in 1..Len(written) : file.results = [i \in 1..Len(written[k].detailed) |-> results[i]]

\* ------------------------------------------------------------- C15
\* the results of the run in which the runners of every group appended in the
\* order of their configurations, every outcome being the same
InConfigOrder ==
    [k \in 1..Len(results) |->
        results[CHOOSE i \in 1..Len(results) :
                   Cardinality({j \in 1..Len(results) : pushed_by[j] < pushed_by[i]}) = k - 1]]

\* C15 (as claimed): two runs that differ only in the order in which the
\* runners appended their results end with the same report, the Generated line
\* apart: the final report is the one the run appending in configuration order
\* writes.
C15_AppendOrderNotObservable ==
    pc = "done" => LastReport = Report(InConfigOrder, LastReport.generated)

\* ------------------------------------------------------------- C16
\* a report without its Generated line
ReportBody(rep) ==
    [total_configs |-> rep.total_configs, top |-> rep.top, detailed |-> rep.detailed]

\* C16: writing the report twice in succession with no TestResult appended in
\* between gives the same content both times, the Generated line apart, and a
\* write leaves the results of the Aggregator as they were.
C16_SnapshotIdempotent ==
    /\ [](/\ pc = "done" =>
               ReportBody(written[Len(written)]) = ReportBody(written[Len(written) - 1])
          /\ \A k \in 1..(Len(written) - 1) :
                written[k].total_configs = written[k + 1].total_configs =>
                    ReportBody(written[k]) = ReportBody(written[k + 1]))
    /\ [][(pc \in {"save", "write", "finalize", "final_write"}) =>
             (results' = results /\ pushed_by' = pushed_by)]_vars

\* the last group's report and the final report were both written, with
\* results in them and different Generated lines
C16_Witness ==
    /\ pc = "done"
    /\ Len(results) >= 2
    /\ written[Len(written)].generated # written[Len(written) - 1].generated
    /\ written[Len(written)].total_configs = Len(results)

\* ------------------------------------------------------------- C17
\* the totals read back from a report: the (successful/total) of every entry
\* of its detailed section
ReportSuccessful(rep) ==
    SumOver([i \in 1..Len(rep.detailed) |-> rep.detailed[i].successful],
            1..Len(rep.detailed))
ReportFailed(rep) ==
    SumOver([i \in 1..Len(rep.detailed) |-> rep.detailed[i].total - rep.detailed[i].successful],
            1..Len(rep.detailed))

\* C17: the total successful and total failed counts read back from a written
\* report equal the sums over the TestResults the Aggregator held when it was
\* written, and at the end of the run they equal the totals obtained by summing
\* the GroupStats of all groups.
C17_TotalsRoundTrip ==
    /\ \A k \in 1..Len(written) :
          /\ Len(written[k].detailed) = written[k].total_configs
          /\ written[k].total_configs <= Len(results)
          /\ ReportSuccessful(written[k]) =
                SumOver([i \in 1..Len(results) |-> Len(results[i].successful_domains)],
                        1..written[k].total_configs)
          /\ ReportFailed(written[k]) =
                SumOver([i \in 1..Len(results) |-> Len(results[i].failed_domains)],
                        1..written[k].total_configs)
    /\ pc = "done" =>
          /\ printed[Len(printed)].kind = "total"
          /\ printed[Len(printed)].successful = ReportSuccessful(LastReport)
          /\ printed[Len(printed)].total - printed[Len(printed)].successful
                = ReportFailed(LastReport)

\* a run of two groups has ended, each group with successes and failures
C17_Witness ==
    /\ pc = "done"
    /\ Len(group_stats) >= 2
    /\ \A g \in 1..Len(group_stats) :
          group_stats[g].successful > 0 /\ group_stats[g].total > group_stats[g].successful
    /\ ReportSuccessful(LastReport) > ReportSuccessful(written[1])

\* ------------------------------------------------------------- C18
\* C18 (as claimed): under fair scheduling, every probe attempt ending within
\* its timeout and every spawn, kill and wait returning, the run eventually
\* has completed all groups and performed the final report write, and launches
\* no more work.
C18_EventuallyCompletes ==
    <>(/\ pc = "done"
       /\ Len(group_stats) = total_groups
       /\ Len(written) = total_groups + 1)

\* under the same fairness the run does stop: main returns, Ok or Err
RunEventuallyStops == <>(pc \in {"done", "aborted"})

\* ------------------------------------------------------------- C19
Elems(seq) == {seq[i] : i \in 1..Len(seq)}

\* C19 (as claimed): in every appended TestResult the successful and the failed
\* domains are disjoint and together hold every domain of the domain list
\* exactly once; a probe that fails to complete counts as a failed domain and
\* does not keep the runner from emitting its TestResult.
C19_PartitionAndProbeFailure ==
    /\ \A k \in 1..Len(results) :
          /\ Elems(results[k].successful_domains) \cap Elems(results[k].failed_domains) = {}
          /\ Elems(results[k].successful_domains) \cup Elems(results[k].failed_domains)
                = Elems(domains)
          /\ Len(results[k].successful_domains) + Len(results[k].failed_domains)
                = Len(domains)
    /\ \A r \in Loaded :
          rstate[r] = "panicked" =>
             \E k \in 1..Len(results) :
                /\ pushed_by[k] = r
                /\ results[k].failed_domains # <<>>

\* ------------------------------------------------------------- C20
\* the stage of the runner state machine a runner is in (NotStarted 0,
\* Running 1, Probing 2, Stopped 3); a task that ended without reaching the next
\* stage stays where it was
Stage(r) ==
    IF rstate[r] \in {"idle", "spawned", "none"} THEN 0
    ELSE IF rstate[r] = "running" THEN 1
    ELSE IF rstate[r] \in {"probing", "probed", "panicked"} THEN 2
    ELSE 3

RunnerSteps ==
    {<<"idle", "spawned">>, <<"spawned", "running">>, <<"spawned", "none">>,
     <<"running", "probing">>, <<"probing", "probed">>, <<"probing", "panicked">>,
     <<"probed", "stopped">>, <<"stopped", "locked">>, <<"locked", "some">>}

\* C20: every runner goes NotStarted, Running, Probing, Stopped in this order,
\* one stage at a time and never back; its process is launched once at most, on
\* entering Running; probes are made only in Probing, with the process started
\* and the readiness delay over; teardown begins only when every probe has
\* returned; the TestResult is appended only after teardown.
C20_RunnerLifecycle ==
    /\ [](\A r \in Loaded :
            /\ Stage(r) >= 1 => proc[r] # "none"
            /\ rstate[r] \in {"probing", "probed"} => proc[r] = "alive"
            /\ Stage(r) < 2 => succ[r] = <<>> /\ fail[r] = <<>>
            /\ Stage(r) < 3 => \A k \in 1..Len(pushed_by) : pushed_by[k] # r
            /\ Cardinality({k \in 1..Len(pushed_by) : pushed_by[k] = r}) <= 1)
    /\ [][\A r \in Runners :
            /\ rstate'[r] # rstate[r] => <<rstate[r], rstate'[r]>> \in RunnerSteps
            /\ proc'[r] # proc[r] =>
                  \/ proc[r] = "none" /\ proc'[r] = "alive" /\ rstate[r] = "spawned"
                                    /\ rstate'[r] = "running"
                  \/ proc[r] = "alive" /\ rstate[r] = "probed" /\ rstate'[r] = "stopped"
            /\ (succ'[r] # succ[r] \/ fail'[r] # fail[r]) =>
                  rstate[r] = "probing" /\ rstate'[r] = "probed"
            /\ (rstate[r] = "probed" /\ rstate'[r] = "stopped") =>
                  Len(succ[r]) + Len(fail[r]) = Len(domains)
            /\ (Len(pushed_by') > Len(pushed_by) /\ pushed_by'[Len(pushed_by')] = r) =>
                  /\ rstate[r] = "locked"
                  /\ proc[r] # "none"
                  /\ results' = Append(results,
                                       TestResult_new(configs[r], port[r], succ[r], fail[r]))]_vars

\* a runner went through every stage and appended its result: its process was
\* launched, its probes of two domains returned, its process was reaped
C20_Witness ==
    \E r \in Loaded :
       /\ rstate[r] = "some"
       /\ proc[r] = "reaped"
       /\ Len(succ[r]) + Len(fail[r]) = 2
       /\ \E k \in 1..Len(pushed_by) : pushed_by[k] = r

\* ------------------------------------------------------------- C21
\* C21: the inter-group delay is made after a group's snapshot exactly when the
\* group is not the last one: after group k of n the run has slept k times if
\* k < n, and a run whose loop has ended has slept n - 1 times - not after the
\* last group, and never in a run of one group.
C21_DelayBetweenGroupsOnly ==
    /\ [](/\ pc \in {"header", "spawn", "await", "save", "write"} => delays = group_idx
          /\ pc = "delay" =>
                /\ delays = group_idx
                /\ group_idx + 1 < total_groups
                /\ Len(written) = group_idx + 1
          /\ LoopEnded => delays = total_groups - 1
          /\ total_groups = 1 => delays = 0)
    /\ [][delays' # delays =>
            /\ delays' = delays + 1
            /\ pc = "delay" /\ pc' = "header"
            /\ Len(written) = delays + 1
            /\ delays + 1 < total_groups]_vars
    /\ [][(Len(written') > Len(written) /\ Len(written') < total_groups) =>
            pc' = "delay"]_vars

\* a run of three groups has ended after two delays
C21_Witness ==
    /\ pc = "done"
    /\ total_groups = 3
    /\ delays = 2

\* ------------------------------------------------------------- C22
IsPrefix(a, b) == Len(a) <= Len(b) /\ a = SubSeq(b, 1, Len(a))

\* C22: the Aggregator is append-only: in every interleaving of the runners
\* the results only grow, every earlier state of them being a prefix of every
\* later one; every position of the configuration list contributes one
\* TestResult at most, and it carries the string of that configuration and the
\* port assigned to it.
C22_AppendOnly ==
    /\ [](/\ Len(pushed_by) = Len(results)
          /\ \A k \in 1..Len(results) :
                /\ pushed_by[k] \in Loaded
                /\ results[k].config = configs[pushed_by[k]]
                /\ results[k].socks5_port = port[pushed_by[k]]
                /\ \A j \in 1..Len(results) : j # k => pushed_by[j] # pushed_by[k])
    /\ [][IsPrefix(results, results') /\ Len(results') <= Len(results) + 1]_vars

\* three runners appended, the second before the first, two of them with the
\* same configuration string
C22_Witness ==
    /\ Len(results) = 3
    /\ pushed_by[1] > pushed_by[2]
    /\ \E j \in 1..3 : \E k \in 1..3 :
          j # k /\ results[j].config = results[k].config

\* ------------------------------------------------------------- C23
\* the configurations of groups 1..k whose runner completed with a TestResult
CompletedUpTo(k) == {r \in Loaded : GroupOf(r) <= k /\ rstate[r] = "some"}

\* C23: the report written after group k has drained holds one entry for every
\* configuration of groups 1..k whose runner completed with a TestResult, and
\* none for a configuration of a later group; its "Total configs tested" is the
\* number of TestResults the Aggregator holds at that moment.
C23_SnapshotAfterGroup ==
    /\ [](\A k \in 1..Min(Len(written), total_groups) :
            LET n == written[k].total_configs IN
            /\ n <= Len(results)
            /\ Len(written[k].detailed) = n
            /\ \A i \in 1..n : written[k].detailed[i] = write_single_result(i, results[i])
            /\ {pushed_by[i] : i \in 1..n} = CompletedUpTo(k)
            /\ Cardinality(CompletedUpTo(k)) = n)
    /\ [][Len(written') > Len(written) =>
            written'[Len(written')].total_configs = Len(results)]_vars

\* the report after the first of two groups was written with the results of
\* that group; a runner of the first group had ended without one, and the
\* second group has appended since
C23_Witness ==
    /\ total_groups = 2
    /\ Len(written) >= 1
    /\ written[1].total_configs = 1
    /\ \E r \in Loaded : GroupOf(r) = 1 /\ rstate[r] \in {"none", "panicked"}
    /\ Len(results) = 2

\* ------------------------------------------------------------- C24
\* C24: a runner holds the lock of the Aggregator only for the one insert of its
\* TestResult - not while it spawns, sleeps, probes or tears down its process;
\* while a snapshot holds the lock across its file write no runner is trying to
\* append; and every runner that requests the lock eventually obtains it: a
\* waiting runner stops waiting only by taking the lock, and again and again no
\* runner is waiting (main never returns while a runner is at work).
C24_LockOnlyForInsert ==
    /\ [](/\ lock \in Runners \cup {0, -1}
          /\ \A r \in Runners : (lock = r) <=> (rstate[r] = "locked")
          /\ lock = -1 =>
                /\ pc \in {"write", "final_write"}
                /\ \A r \in Runners : rstate[r] \notin Active
          /\ pc \in {"done", "aborted"} => \A r \in Runners : rstate[r] \notin Active)
    /\ [][\A r \in Runners :
            /\ (lock # r /\ lock' = r) => (lock = 0 /\ rstate[r] = "stopped")
            /\ (rstate[r] = "stopped" /\ rstate'[r] # "stopped") => lock' = r
            /\ lock = r =>
                  \/ lock' = r /\ results' = results
                  \/ /\ lock' = 0
                     /\ Len(results') = Len(results) + 1
                     /\ pushed_by'[Len(pushed_by')] = r]_vars
    /\ []<>(\A r \in Runners : rstate[r] # "stopped")

\* a runner is waiting for the lock that another runner holds
C24_Witness ==
    \E r \in Loaded : \E q \in Loaded :
       /\ rstate[r] = "stopped"
       /\ lock = q
       /\ q # r

\* ------------------------------------------------------------- C25
\* the runners whose log file is open: the process is started or being started
Logging == {r \in Loaded : log_path[r] # NoPath /\ rstate[r] \in Active}

\* C25: two runners that are active at the same time write to different log
\* files - their paths differ even when their configuration strings are the
\* same - and the log path of a runner of group k+1 differs from that of every
\* runner of group k.
C25_LogPathsDiffer ==
    /\ \A r \in Logging : \A q \in Logging : r # q => log_path[r] # log_path[q]
    /\ \A r \in Loaded : \A q \in Loaded :
          (/\ GroupOf(q) = GroupOf(r) + 1
           /\ log_path[r] # NoPath
           /\ log_path[q] # NoPath) => log_path[r] # log_path[q]
    /\ \A r \in Loaded :
          log_path[r] # NoPath =>
             log_path[r] = LogPath(GroupOf(r), configs[r], port[r], log_path[r].name.t)

\* two runners of one group with the same configuration string, started in the
\* same second, are both at work
C25_Witness ==
    \E r \in Logging : \E q \in Logging :
       /\ r # q
       /\ configs[r] = configs[q]
       /\ GroupOf(r) = GroupOf(q)
       /\ log_path[r].name.t = log_path[q].name.t
       /\ rstate[r] = "probing" /\ rstate[q] = "probing"

\* ------------------------------------------------------------- C26
\* C26 (as claimed): for every 16-bit start_port, every group size and every
\* position i in a group the port computed for the i-th configuration is the
\* number start_port + i: it does not exceed 65535 and does not wrap, so two
\* configurations of a group never get the same port; the same holds for the
\* range end start_port + len(group) - 1 of the group header, and no such
\* addition stops the run.
C26_PortArithmeticExact ==
    /\ abort # "overflow"
    /\ \A r \in Spawned :
          /\ port[r] = start_port + ((r - 1) % group_size)
          /\ port[r] <= U16Max
          /\ \A q \in Spawned :
                (q # r /\ GroupOf(q) = GroupOf(r)) => port[q] # port[r]
    /\ pc \in {"spawn", "await", "save", "write", "delay"} =>
          /\ header_end = start_port + ChunkLen(group_idx) - 1
          /\ header_end <= U16Max

\* ------------------------------------------------------------- C27
\* what the TestResults pushed by the runners in S add up to
ResultsSuccessful(S) ==
    SumOver([k \in 1..Len(results) |-> Len(results[k].successful_domains)],
            {k \in 1..Len(results) : pushed_by[k] \in S})
ResultsTotal(S) ==
    SumOver([k \in 1..Len(results) |->
                Len(results[k].successful_domains) + Len(results[k].failed_domains)],
            {k \in 1..Len(results) : pushed_by[k] \in S})

\* the runners of the group in hand that the join loop has been through
Joined == {ChunkAt(group_idx, i) : i \in 0..(await_i - 1)}

\* C27: process_group counts a runner once, and exactly when the runner
\* appended a TestResult: the counters of the join loop are the sums over the
\* TestResults of the runners joined so far, every GroupStats is the sum over
\* the TestResults of its group with successful <= total, and between groups
\* the totals of the GroupStats are the sums over all TestResults.
C27_GroupStatsMatchResults ==
    /\ \A r \in Loaded :
          Cardinality({k \in 1..Len(pushed_by) : pushed_by[k] = r})
             = IF rstate[r] = "some" THEN 1 ELSE 0
    /\ pc = "await" =>
          /\ successful_total = ResultsSuccessful(Joined)
          /\ tests_total = ResultsTotal(Joined)
    /\ \A g \in 1..Len(group_stats) :
          /\ group_stats[g].successful <= group_stats[g].total
          /\ group_stats[g].successful = ResultsSuccessful({r \in Loaded : GroupOf(r) = g})
          /\ group_stats[g].total = ResultsTotal({r \in Loaded : GroupOf(r) = g})
    /\ pc \in {"save", "write", "delay", "header", "finalize", "final_write", "done"} =>
          /\ calculate_total_stats(group_stats).total = ResultsTotal(Loaded)
          /\ calculate_total_stats(group_stats).successful = ResultsSuccessful(Loaded)

\* two groups have been processed: in the first a runner appended a result
\* with successes and failures and the other ended without one; the second
\* group's runner appended too
C27_Witness ==
    /\ Len(group_stats) = 2
    /\ pc = "save"
    /\ \E r \in Loaded : GroupOf(r) = 1 /\ rstate[r] \in {"none", "panicked"}
    /\ group_stats[1].successful = 1
    /\ group_stats[1].total = 2
    /\ group_stats[2].total = 2
    /\ group_stats[2].successful = 0
====
